---- MODULE Spec2Model ----
(***************************************************************************)
(* Model of src/tts_speech.py: the AzureTTS client (text_to_speech,        *)
(* get_available_voices, _create_ssml) and the main entry point.           *)
(*                                                                         *)
(* Representation.  A Python str is a TLA+ string.  An Optional[str] is    *)
(* <<>> for None and <<s>> for the string s.  A formatted document is the  *)
(* sequence of the pieces the f-string concatenates, in order.  A printed  *)
(* line is a tuple whose first element names the message.  The speech SDK  *)
(* is the environment: the result of each remote call, and whether a call  *)
(* into the SDK raises, is chosen nondeterministically.                    *)
(***************************************************************************)
EXTENDS Integers, Sequences, FiniteSets, TLC

VARIABLES pc, env_key, env_region, tts, callee, args, audio_config,
          ssml_text, requests, result, log, ret, voices_out, nCalls, netCalls

vars == <<pc, env_key, env_region, tts, callee, args, audio_config,
          ssml_text, requests, result, log, ret, voices_out, nCalls, netCalls>>

\* ---------------------------------------------------------------- bounds
MaxCalls == 2
MaxVoices == 2

\* ---------------------------------------------------------------- values
None == <<>>
Some(s) == <<s>>

Texts == {"hello", "a<b"}
VoiceNames == {"ja-JP-NanamiNeural", "ja-JP-KeitaNeural"}
OutputFiles == {None, Some(""), Some("output.wav")}
Rates == {None, Some(""), Some("1.5")}
Pitches == {None, Some("+50Hz")}
Volumes == {None, Some(""), Some("loud")}
EnvKeys == {None, Some(""), Some("key1")}
EnvRegions == {None, Some("westus")}

RECURSIVE SeqsUpTo(_, _)
SeqsUpTo(S, n) ==
    IF n = 0 THEN {<<>>}
    ELSE LET shorter == SeqsUpTo(S, n - 1)
         IN shorter \cup {Append(s, x) : s \in {t \in shorter : Len(t) = n - 1}, x \in S}

\* ------------------------------------------------------ the SDK's answers
NoResult ==
    [exc |-> "", reason |-> "", creason |-> "", error_details |-> "", voices |-> <<>>]

SynthResults ==
    {[NoResult EXCEPT !.reason = "SynthesizingAudioCompleted"],
     [NoResult EXCEPT !.reason = "SynthesizingAudioStarted"],
     [NoResult EXCEPT !.exc = "connection failed"]}
    \cup {[NoResult EXCEPT !.reason = "Canceled", !.creason = c, !.error_details = d] :
            c \in {"Error", "CancelledByUser"}, d \in {"", "quota exceeded"}}

VoicesResults ==
    {[NoResult EXCEPT !.reason = r, !.voices = v] :
        r \in {"VoicesListRetrieved", "Canceled"}, v \in SeqsUpTo(VoiceNames, MaxVoices)}
    \cup {[NoResult EXCEPT !.exc = "connection failed"]}

\* ------------------------------------------------------------ pure parts
\* Python truth value of an Optional[str]: None and "" are false.
Truthy(o) == o # None /\ o[1] # ""

RECURSIVE Join(_, _)
Join(parts, sep) ==
    IF Len(parts) = 0 THEN <<>>
    ELSE IF Len(parts) = 1 THEN parts[1]
    ELSE parts[1] \o <<sep>> \o Join(Tail(parts), sep)

ProsodyAttrs_swapped(rate, pitch, volume) ==
    (IF Truthy(pitch) THEN << <<"pitch=\"", pitch[1], "\"">> >> ELSE <<>>)
    \o (IF Truthy(rate) THEN << <<"rate=\"", rate[1], "\"">> >> ELSE <<>>)
    \o (IF Truthy(volume) THEN << <<"volume=\"", volume[1], "\"">> >> ELSE <<>>)

ProsodyAttrs(rate, pitch, volume) ==
    (IF Truthy(rate) THEN << <<"rate=\"", rate[1], "\"">> >> ELSE <<>>)
    \o (IF Truthy(pitch) THEN << <<"pitch=\"", pitch[1], "\"">> >> ELSE <<>>)
    \o (IF Truthy(volume) THEN << <<"volume=\"", volume[1], "\"">> >> ELSE <<>>)

create_ssml(text, voice_name, rate, pitch, volume) ==
    LET prosody_attrs == ProsodyAttrs(rate, pitch, volume)
        prosody_text ==
            IF Len(prosody_attrs) > 0
            THEN <<"<prosody ">> \o Join(prosody_attrs, " ") \o <<">">>
                 \o <<text>> \o <<"</prosody>">>
            ELSE <<text>>
    IN <<"<speak version=\"1.0\" xmlns=\"http://www.w3.org/2001/10/synthesis\" xml:lang=\"ja-JP\">",
         "\n    ", "<voice name=\"", voice_name, "\">", "\n        ">>
       \o prosody_text
       \o <<"\n    ", "</voice>", "\n", "</speak>">>

UsesSsml_no_volume(rate, pitch, volume) == Truthy(rate) \/ Truthy(pitch)

UsesSsml(rate, pitch, volume) == Truthy(rate) \/ Truthy(pitch) \/ Truthy(volume)

SpeechConfig(speech_key, service_region) ==
    [subscription |-> speech_key, region |-> service_region,
     speech_synthesis_voice_name |-> None]

SetVoiceName_skipped(config, voice_name) == config

SetVoiceName(config, voice_name) ==
    [config EXCEPT !.speech_synthesis_voice_name = Some(voice_name)]

AudioOutputConfig(output_file) ==
    IF Truthy(output_file) THEN <<"file", output_file[1]>> ELSE <<"speaker">>

CompletedMessage_is_not_none(output_file) ==
    IF output_file # None THEN <<"saved", output_file[1]>> ELSE <<"played">>

CompletedMessage(output_file) ==
    IF Truthy(output_file) THEN <<"saved", output_file[1]>> ELSE <<"played">>

CanceledMessages_always_detail(res) ==
    << <<"canceled", res.creason>>, <<"detail", res.error_details>> >>

CanceledMessages(res) ==
    << <<"canceled", res.creason>> >>
    \o (IF res.error_details # "" THEN << <<"detail", res.error_details>> >> ELSE <<>>)

InterpretResult_fallthrough_true(res, output_file) ==
    IF res.exc # ""
    THEN [log |-> << <<"error", res.exc>> >>, ret |-> "False"]
    ELSE IF res.reason = "SynthesizingAudioCompleted"
    THEN [log |-> << CompletedMessage(output_file) >>, ret |-> "True"]
    ELSE IF res.reason = "Canceled"
    THEN [log |-> CanceledMessages(res), ret |-> "False"]
    ELSE [log |-> <<>>, ret |-> "True"]

InterpretResult(res, output_file) ==
    IF res.exc # ""
    THEN [log |-> << <<"error", res.exc>> >>, ret |-> "False"]
    ELSE IF res.reason = "SynthesizingAudioCompleted"
    THEN [log |-> << CompletedMessage(output_file) >>, ret |-> "True"]
    ELSE IF res.reason = "Canceled"
    THEN [log |-> CanceledMessages(res), ret |-> "False"]
    ELSE [log |-> <<>>, ret |-> "False"]

VoicesOutcome_drop_first(res) ==
    IF res.reason = "VoicesListRetrieved"
    THEN [log |-> <<>>, voices |-> IF Len(res.voices) > 0 THEN Tail(res.voices) ELSE <<>>]
    ELSE [log |-> << <<"voices_failed">> >>, voices |-> <<>>]

VoicesOutcome(res) ==
    IF res.reason = "VoicesListRetrieved"
    THEN [log |-> <<>>, voices |-> [i \in 1..Len(res.voices) |-> res.voices[i]]]
    ELSE [log |-> << <<"voices_failed">> >>, voices |-> <<>>]

KeyMissing_none_only(speech_key) == speech_key = None

KeyMissing(speech_key) == ~Truthy(speech_key)

ServiceRegion(region) == IF region = None THEN "japaneast" ELSE region[1]

NoArgs ==
    [text |-> "", voice_name |-> "", output_file |-> None,
     rate |-> None, pitch |-> None, volume |-> None]

\* ------------------------------------------------------------------ Init
Init ==
    /\ pc = "main"
    /\ env_key \in EnvKeys
    /\ env_region \in EnvRegions
    /\ tts = None
    /\ callee = "none"
    /\ args = NoArgs
    /\ audio_config = <<>>
    /\ ssml_text = None
    /\ requests = <<>>
    /\ result = NoResult
    /\ log = <<>>
    /\ ret = "-"
    /\ voices_out = <<>>
    /\ nCalls = 0
    /\ netCalls = 0

\* --------------------------------------------------------------- actions
\* main, lines 149-160: read the environment, stop without a key, else
\* construct the client.
MainStart ==
    /\ pc = "main"
    /\ IF KeyMissing(env_key)
       THEN /\ log' = << <<"no_key">> >>
            /\ pc' = "exit"
            /\ tts' = tts
       ELSE /\ tts' = Some(SpeechConfig(env_key[1], ServiceRegion(env_region)))
            /\ pc' = "idle"
            /\ log' = log
    /\ UNCHANGED <<env_key, env_region, callee, args, audio_config, ssml_text,
                   requests, result, ret, voices_out, nCalls, netCalls>>

\* text_to_speech, lines 44-54: everything before the try block.  The SDK
\* may raise while the synthesizer is constructed; nothing catches it here.
TtsEnter(text, voice_name, output_file, rate, pitch, volume, raises) ==
    /\ pc = "idle"
    /\ nCalls < MaxCalls
    /\ tts' = Some(SetVoiceName(tts[1], voice_name))
    /\ audio_config' = AudioOutputConfig(output_file)
    /\ args' = [text |-> text, voice_name |-> voice_name, output_file |-> output_file,
                rate |-> rate, pitch |-> pitch, volume |-> volume]
    /\ callee' = "text_to_speech"
    /\ ssml_text' = None
    /\ requests' = <<>>
    /\ result' = NoResult
    /\ log' = <<>>
    /\ voices_out' = <<>>
    /\ nCalls' = nCalls + 1
    /\ IF raises
       THEN pc' = "crashed" /\ ret' = "raised"
       ELSE pc' = "tts_dispatch" /\ ret' = "-"
    /\ UNCHANGED <<env_key, env_region, netCalls>>

\* text_to_speech, lines 58-62: one remote synthesis call, markup or text.
TtsDispatch(res) ==
    /\ pc = "tts_dispatch"
    /\ IF UsesSsml(args.rate, args.pitch, args.volume)
       THEN /\ ssml_text' = Some(create_ssml(args.text, args.voice_name,
                                             args.rate, args.pitch, args.volume))
            /\ requests' = Append(requests,
                   [kind |-> "ssml", payload |-> ssml_text'[1],
                    voice |-> tts[1].speech_synthesis_voice_name,
                    sink |-> audio_config])
       ELSE /\ ssml_text' = ssml_text
            /\ requests' = Append(requests,
                   [kind |-> "text", payload |-> <<args.text>>,
                    voice |-> tts[1].speech_synthesis_voice_name,
                    sink |-> audio_config])
    /\ netCalls' = netCalls + 1
    /\ result' = res
    /\ pc' = "tts_interpret"
    /\ UNCHANGED <<env_key, env_region, tts, callee, args, audio_config, log,
                   ret, voices_out, nCalls>>

TtsInterpret_retry ==
    /\ pc = "tts_interpret"
    /\ LET o == InterpretResult(result, args.output_file)
       IN log' = o.log /\ ret' = o.ret
    /\ pc' = IF result.exc # "" /\ Len(requests) < 2 THEN "tts_dispatch" ELSE "idle"
    /\ UNCHANGED <<env_key, env_region, tts, callee, args, audio_config,
                   ssml_text, requests, result, voices_out, nCalls, netCalls>>

\* text_to_speech, lines 64-80: interpret the result or the exception.
TtsInterpret ==
    /\ pc = "tts_interpret"
    /\ LET o == InterpretResult(result, args.output_file)
       IN log' = o.log /\ ret' = o.ret
    /\ pc' = "idle"
    /\ UNCHANGED <<env_key, env_region, tts, callee, args, audio_config,
                   ssml_text, requests, result, voices_out, nCalls, netCalls>>

\* get_available_voices, lines 89-90: build a synthesizer from the shared
\* configuration and fetch the voice list; an exception here is not caught.
VoicesCall(res) ==
    /\ pc = "idle"
    /\ nCalls < MaxCalls
    /\ callee' = "get_available_voices"
    /\ args' = NoArgs
    /\ audio_config' = <<>>
    /\ ssml_text' = None
    /\ requests' = << [kind |-> "voices", payload |-> <<>>,
                       voice |-> tts[1].speech_synthesis_voice_name,
                       sink |-> <<>>] >>
    /\ netCalls' = netCalls + 1
    /\ nCalls' = nCalls + 1
    /\ result' = res
    /\ log' = <<>>
    /\ voices_out' = <<>>
    /\ IF res.exc # ""
       THEN pc' = "crashed" /\ ret' = "raised"
       ELSE pc' = "voices_return" /\ ret' = "-"
    /\ UNCHANGED <<env_key, env_region, tts>>

\* get_available_voices, lines 92-96.
VoicesReturn ==
    /\ pc = "voices_return"
    /\ LET o == VoicesOutcome(result)
       IN log' = o.log /\ voices_out' = o.voices
    /\ ret' = "list"
    /\ pc' = "idle"
    /\ UNCHANGED <<env_key, env_region, tts, callee, args, audio_config,
                   ssml_text, requests, result, nCalls, netCalls>>

\* main returns after its last call.
MainReturn ==
    /\ pc = "idle"
    /\ pc' = "exit"
    /\ UNCHANGED <<env_key, env_region, tts, callee, args, audio_config,
                   ssml_text, requests, result, log, ret, voices_out, nCalls, netCalls>>

Next ==
    \/ MainStart
    \/ \E text \in Texts, voice_name \in VoiceNames, output_file \in OutputFiles,
          rate \in Rates, pitch \in Pitches, volume \in Volumes, raises \in BOOLEAN :
          TtsEnter(text, voice_name, output_file, rate, pitch, volume, raises)
    \/ \E res \in SynthResults : TtsDispatch(res)
    \/ TtsInterpret
    \/ \E res \in VoicesResults : VoicesCall(res)
    \/ VoicesReturn
    \/ MainReturn

Spec == Init /\ [][Next]_vars

\* ------------------------------------------------------- shared notions
\* A text_to_speech invocation that has issued its synthesis call.
TtsIssued == callee = "text_to_speech" /\ requests # <<>>

\* A text_to_speech invocation that has returned to its caller.
TtsReturned == callee = "text_to_speech" /\ pc \in {"idle", "exit"}

\* A prosody field counts as supplied when it is a non-empty string.
Supplied(o) == o \notin {None, Some("")}

IndicesOf(doc, piece) == {i \in 1..Len(doc) : doc[i] = piece}

\* ------------------------------------------------------------------- C1
\* C1: once text_to_speech has issued its synthesis call, the call is the
\* markup call carrying the document built by _create_ssml exactly when at
\* least one of rate, pitch, volume is supplied; otherwise _create_ssml was
\* not invoked and the call is the plain-text call carrying the raw text.
C1_MarkupIffProsody ==
    TtsIssued =>
        LET r == requests[1]
            any == Supplied(args.rate) \/ Supplied(args.pitch) \/ Supplied(args.volume)
        IN /\ r.kind \in {"ssml", "text"}
           /\ (r.kind = "ssml") <=> any
           /\ any => ssml_text # None /\ r.payload = ssml_text[1]
                     /\ "<speak version=\"1.0\" xmlns=\"http://www.w3.org/2001/10/synthesis\" xml:lang=\"ja-JP\">"
                            = r.payload[1]
           /\ ~any => ssml_text = None /\ r.payload = <<args.text>>

C1_Witness ==
    /\ TtsReturned
    /\ requests # <<>>
    /\ requests[1].kind = "ssml"
    /\ args.rate = Some("")
    /\ args.pitch = None
    /\ args.volume = Some("loud")

\* ------------------------------------------------------------------- C2
\* C2: no exception escapes text_to_speech; every exception raised while a
\* request is dispatched becomes the return value False.
C2_NoExceptionEscapes ==
    callee = "text_to_speech" => pc # "crashed" /\ ret # "raised"

\* ------------------------------------------------------------------- C3
\* C3: a document built by _create_ssml holds exactly one prosody element,
\* it wraps the text, and its attributes are the supplied fields and only
\* those, each as name="value", in the order rate, pitch, volume.
C3_Doc == requests[1].payload
C3_Open == CHOOSE i \in IndicesOf(C3_Doc, "<prosody ") : TRUE
C3_Close == CHOOSE j \in IndicesOf(C3_Doc, ">") :
                j > C3_Open /\ \A k \in IndicesOf(C3_Doc, ">") : k > C3_Open => j <= k
C3_End == CHOOSE i \in IndicesOf(C3_Doc, "</prosody>") : TRUE
C3_AttrPieces == SubSeq(C3_Doc, C3_Open + 1, C3_Close - 1)
C3_AttrCount == (Len(C3_AttrPieces) + 1) \div 4
C3_ParsedAttrs ==
    [k \in 1..C3_AttrCount |->
        <<C3_AttrPieces[4 * (k - 1) + 1], C3_AttrPieces[4 * (k - 1) + 2]>>]
C3_ExpectedAttrs ==
    LET all == << <<"rate=\"", args.rate>>, <<"pitch=\"", args.pitch>>,
                  <<"volume=\"", args.volume>> >>
        kept == SelectSeq(all, LAMBDA p : Supplied(p[2]))
    IN [k \in 1..Len(kept) |-> <<kept[k][1], kept[k][2][1]>>]

C3_ProsodyAttributes ==
    (TtsIssued /\ requests[1].kind = "ssml") =>
        /\ Cardinality(IndicesOf(C3_Doc, "<prosody ")) = 1
        /\ Cardinality(IndicesOf(C3_Doc, "</prosody>")) = 1
        /\ \E j \in IndicesOf(C3_Doc, ">") : j > C3_Open
        /\ Len(C3_AttrPieces) = 4 * C3_AttrCount - 1
        /\ \A k \in 1..C3_AttrCount :
              /\ C3_AttrPieces[4 * (k - 1) + 3] = "\""
              /\ k < C3_AttrCount => C3_AttrPieces[4 * k] = " "
        /\ C3_ParsedAttrs = C3_ExpectedAttrs
        /\ SubSeq(C3_Doc, C3_Close + 1, C3_End - 1) = <<args.text>>
        /\ C3_Doc[C3_Open - 1] = "\n        "
        /\ SubSeq(C3_Doc, C3_Open - 4, C3_Open - 2)
              = <<"<voice name=\"", args.voice_name, "\">">>
        /\ SubSeq(C3_Doc, C3_End + 1, Len(C3_Doc))
              = <<"\n    ", "</voice>", "\n", "</speak>">>

C3_Witness ==
    /\ TtsIssued
    /\ requests[1].kind = "ssml"
    /\ args.rate = Some("1.5")
    /\ args.pitch = Some("+50Hz")
    /\ args.volume = None
    /\ C3_ParsedAttrs = << <<"rate=\"", "1.5">>, <<"pitch=\"", "+50Hz">> >>

\* ------------------------------------------------------------------- C4
\* C4: when main finds no speech key (unset or empty) it prints the
\* guidance and returns; no client is ever constructed and no synthesis or
\* voice-list call is ever issued.
C4_NoKeyNoCall ==
    env_key \in {None, Some("")} =>
        /\ pc \in {"main", "exit"}
        /\ tts = None
        /\ nCalls = 0
        /\ netCalls = 0
        /\ requests = <<>>
        /\ pc = "exit" => log = << <<"no_key">> >>

C4_Witness == env_key = None /\ pc = "exit" /\ log = << <<"no_key">> >>

\* ------------------------------------------------------------------- C5
\* C5: a text_to_speech invocation issues at most one remote synthesis
\* call; once the call has produced a result or an exception, the
\* invocation returns without issuing another one.
C5_SingleAttempt ==
    /\ [](callee = "text_to_speech" => Len(requests) <= 1)
    /\ [](netCalls <= nCalls)
    /\ [][pc = "tts_interpret" =>
            pc' = "idle" /\ requests' = requests /\ netCalls' = netCalls]_vars

C5_Witness ==
    /\ TtsReturned
    /\ result.reason = "Canceled"
    /\ ret = "False"
    /\ Len(requests) = 1
    /\ nCalls = 2
    /\ netCalls = 2

\* ------------------------------------------------------------------- C6
\* C6 as stated: once the client is constructed no call changes its state.
C6_InstanceUnchanged ==
    [][callee' = "text_to_speech" => tts' = tts]_vars

\* C6 as amended: a call never changes the credentials or the region; the
\* only field a call changes is the voice name, which text_to_speech sets
\* to its own voice_name argument before it issues its request, so every
\* synthesis request carries the voice of its own invocation; a voice-list
\* request is built from the configuration as the last call left it.
C6_OnlyVoiceNameChanges ==
    /\ [][(pc # "main" /\ tts # None) =>
            /\ tts' # None
            /\ tts'[1].subscription = tts[1].subscription
            /\ tts'[1].region = tts[1].region
            /\ tts' # tts =>
                  /\ callee' = "text_to_speech"
                  /\ pc = "idle"
                  /\ tts'[1].speech_synthesis_voice_name = Some(args'.voice_name)]_vars
    /\ [](TtsIssued => requests[1].voice = Some(args.voice_name))
    /\ []((callee = "get_available_voices" /\ pc # "crashed") =>
            requests[1].voice = tts[1].speech_synthesis_voice_name)

C6_Witness ==
    /\ callee = "get_available_voices"
    /\ pc = "idle"
    /\ requests[1].voice = Some("ja-JP-KeitaNeural")

\* ------------------------------------------------------------------- C7
\* C7: a SynthesizingAudioCompleted result makes text_to_speech succeed
\* with one message, which names the file path when the call wrote to a
\* file and speaker playback when it played on the default device; the
\* message always agrees with the sink the call selected.
C7_CompletedDescription ==
    (TtsReturned /\ result.exc = "" /\ result.reason = "SynthesizingAudioCompleted") =>
        /\ ret = "True"
        /\ Len(log) = 1
        /\ requests[1].sink = audio_config
        /\ audio_config[1] \in {"file", "speaker"}
        /\ audio_config[1] = "file" =>
              /\ log[1] = <<"saved", audio_config[2]>>
              /\ args.output_file = Some(audio_config[2])
        /\ audio_config[1] = "speaker" =>
              /\ log[1] = <<"played">>
              /\ args.output_file \in {None, Some("")}
        /\ Supplied(args.output_file) => audio_config[1] = "file"

C7_Witness ==
    /\ TtsReturned
    /\ result.reason = "SynthesizingAudioCompleted"
    /\ audio_config = <<"file", "output.wav">>
    /\ log = << <<"saved", "output.wav">> >>

\* ------------------------------------------------------------------- C8
\* C8: a Canceled result makes text_to_speech fail, reporting the
\* cancellation reason, followed by the error detail exactly when the
\* result carries one.
C8_CanceledReport ==
    (TtsReturned /\ result.exc = "" /\ result.reason = "Canceled") =>
        /\ ret = "False"
        /\ Len(log) >= 1
        /\ log[1] = <<"canceled", result.creason>>
        /\ result.error_details # "" =>
              log = << <<"canceled", result.creason>>, <<"detail", result.error_details>> >>
        /\ result.error_details = "" => Len(log) = 1

C8_Witness ==
    /\ TtsReturned
    /\ result.reason = "Canceled"
    /\ log = << <<"canceled", "Error">>, <<"detail", "quota exceeded">> >>
    /\ ret = "False"

\* ------------------------------------------------------------------- C9
\* C9: get_available_voices issues exactly one voice-list call; given a
\* result, it returns normally: the result's voices in order on
\* VoicesListRetrieved, and otherwise the empty list with a failure notice.
C9_VoiceList ==
    /\ []((callee = "get_available_voices" /\ pc \in {"idle", "exit"}) =>
            /\ Len(requests) = 1
            /\ requests[1].kind = "voices"
            /\ ret = "list"
            /\ result.reason = "VoicesListRetrieved" =>
                  voices_out = result.voices /\ log = <<>>
            /\ result.reason # "VoicesListRetrieved" =>
                  voices_out = <<>> /\ log = << <<"voices_failed">> >>)
    /\ [][(pc = "idle" /\ callee' = "get_available_voices" /\ pc' # "exit") =>
            netCalls' = netCalls + 1 /\ Len(requests') = 1]_vars
    /\ [][pc = "voices_return" => pc' = "idle" /\ netCalls' = netCalls]_vars

C9_Witness ==
    /\ callee = "get_available_voices"
    /\ pc = "idle"
    /\ result.reason = "VoicesListRetrieved"
    /\ voices_out = <<"ja-JP-KeitaNeural", "ja-JP-NanamiNeural">>

\* ------------------------------------------------------------------ C10
\* C10: text_to_speech returns True exactly when the synthesis call raised
\* nothing and its result is SynthesizingAudioCompleted; a Canceled result,
\* any other result code and an exception in the try block all give False,
\* and another result code gives a failure that is neither a completion
\* nor a cancellation report.
C10_ReturnValue ==
    TtsReturned =>
        /\ ret \in {"True", "False"}
        /\ (ret = "True") <=>
              (result.exc = "" /\ result.reason = "SynthesizingAudioCompleted")
        /\ (result.exc = "" /\ result.reason \notin {"SynthesizingAudioCompleted", "Canceled"}) =>
              /\ ret = "False"
              /\ \A i \in 1..Len(log) : log[i][1] \notin {"saved", "played", "canceled", "detail"}
        /\ result.exc # "" => log = << <<"error", result.exc>> >>

C10_Witness ==
    /\ TtsReturned
    /\ result.exc = ""
    /\ result.reason = "SynthesizingAudioStarted"
    /\ ret = "False"

====
